---- MODULE Spec2Model ----
(***************************************************************************)
(* Model of unused-ami-management-tool.py: a sequential command-line tool  *)
(* that lists the image ids referenced by instances, lists the image ids   *)
(* owned by an account, subtracts the first from the second and, for each  *)
(* remaining image, deregisters it and deletes its snapshots unless the    *)
(* image or the snapshot is tagged archive=true or --no-op is given.       *)
(*                                                                         *)
(* The program variables keep their source names.  The remote API is the   *)
(* environment: each call either raises or returns a response drawn from   *)
(* a small set.  The variables of the section "API call record" are not    *)
(* program state: they record which calls were issued and what they        *)
(* returned, so that properties about calls can be stated.                 *)
(***************************************************************************)
EXTENDS Integers, Sequences, FiniteSets, TLC

VARIABLES
    pc,                \* position in main() / the function it is executing
    owner_account_id,  \* args.owner_account_id (NoArg: option not given)
    no_op,             \* args.no_op
    exit_code,         \* process exit status once pc = "exited"
    amis_in_use,       \* main: list returned by get_instance_amis
    amis_owned,        \* main: list returned by get_owned_amis
    unused_amis,       \* main: list returned by find_unused_amis
    idx,               \* position of `for ami in unused_amis`
    entriesLeft,       \* entries of response["Images"] not yet iterated
    skip_deletion,     \* local of the cleanup loop
    snapshots,         \* local of the cleanup loop
    sidx,              \* position of `for snapshot_id in snapshots`
    \* ---- API call record ----
    instancesFailed,   \* describe_instances raised
    imagesListed,      \* describe_images(Owners=...) was issued
    fetched,           \* per image: what describe_images(ImageIds=[ami]) gave:
                       \* "none" (not called), "error", "empty" (no entry),
                       \* "archived" (an entry carries archive=true), "plain"
    deregCount,        \* per image: number of deregister_image calls
    deregOK,           \* images whose deregister_image call returned
    referenced,        \* snapshot ids seen in fetched block mappings
    archivedSnaps,     \* snapshots whose fetched tags carry archive=true
    plainSnaps,        \* snapshots whose fetched tags carry no archive=true
    deleteCalls,       \* snapshots for which delete_snapshot was issued
    snapFailed,        \* snapshots whose describe or delete raised
    snapLogged,        \* snapshots named in an "Error deleting snapshot" line
    attempts           \* describe_snapshots calls made for the current image

vars == <<pc, owner_account_id, no_op, exit_code, amis_in_use, amis_owned,
          unused_amis, idx, entriesLeft, skip_deletion, snapshots, sidx,
          instancesFailed, imagesListed, fetched, deregCount, deregOK,
          referenced, archivedSnaps, plainSnaps, deleteCalls, snapFailed,
          snapLogged, attempts>>

----------------------------------------------------------------------------
(* Bounds of the model *)

\* entries in the "Images" list of one describe_images(ImageIds=[ami]) response
MaxEntries == 2
\* block device mappings per image entry
MaxMappings == 2
\* reservations in a describe_instances response
MaxReservations == 2
\* images in a describe_images(Owners=...) response
MaxOwnedEntries == 3
\* snapshot ids collected for one image
MaxSnapshots == 3
\* length of the argument lists when find_unused_amis is called on its own
MaxLen == 3

ImageIds == {"ami-a", "ami-b"}

\* Data model: a snapshot is bound to the block mapping of exactly one image,
\* so the snapshot ids an image can reference are its own.
Volumes == {"v1", "v2"}
SnapshotIds == ImageIds \X Volumes
SnapsOf(ami) == {ami} \X Volumes
SnapOwner(s) == s[1]

NoArg == "<not given>"
NoValue == "<none>"
OwnerArgs == {NoArg, "", "123456789012"}

----------------------------------------------------------------------------
(* Helpers *)

Range(s) == {s[k] : k \in DOMAIN s}

SeqsUpTo(S, n) == UNION {[1..m -> S] : m \in 0..n}

\* list(a_set): the elements of the set, each once, in an unspecified order
ListsOf(S) == {f \in [1..Cardinality(S) -> S] : Range(f) = S}

----------------------------------------------------------------------------
(* Tags *)

Tag(k, v) == [Key |-> k, Value |-> v]

\* tag lists a resource can carry (tag keys are unique per resource)
TagLists ==
    { <<>>,
      <<Tag("archive", "true")>>,
      <<Tag("archive", "false")>>,
      <<Tag("archive", "True")>>,
      <<Tag("Name", "web"), Tag("archive", "true")>>,
      <<Tag("archive", "true"), Tag("Name", "true")>>,
      <<Tag("Name", "archive"), Tag("owner", "true")>> }

\* {tag["Key"]: tag["Value"] for tag in tags}.get(key): a later entry of the
\* same key overwrites an earlier one.
RECURSIVE TagsGet(_, _)
TagsGet(tags, key) ==
    IF tags = <<>> THEN NoValue
    ELSE LET last == tags[Len(tags)]
         IN  IF last.Key = key THEN last.Value
             ELSE TagsGet(SubSeq(tags, 1, Len(tags) - 1), key)

\* what the remote resource carries, read off the tag list itself
CarriesArchiveTrue(tags) ==
    \E k \in DOMAIN tags : tags[k].Key = "archive" /\ tags[k].Value = "true"

----------------------------------------------------------------------------
(* API responses *)

\* an instance of a reservation, with or without the "ImageId" key
InstanceEntries ==
    { [InstanceId |-> "i-0"] } \cup { [InstanceId |-> "i-1", ImageId |-> a] : a \in ImageIds }
Reservations == SeqsUpTo(InstanceEntries, 2)
InstanceResponses == SeqsUpTo(Reservations, MaxReservations)

\* response["Images"] of describe_images(Owners=[...]): entries with or without "ImageId"
OwnedEntries ==
    { [Name |-> "img"] } \cup { [Name |-> "img", ImageId |-> a] : a \in ImageIds }
OwnedResponses == SeqsUpTo(OwnedEntries, MaxOwnedEntries)

\* a block device mapping: without "Ebs", with "Ebs" but without "SnapshotId",
\* or with "Ebs" holding a "SnapshotId"
BlockDevices(ami) ==
    { [DeviceName |-> "sdb"], [DeviceName |-> "sda", Ebs |-> [VolumeSize |-> 8]] }
    \cup { [DeviceName |-> "sda", Ebs |-> [SnapshotId |-> s]] : s \in SnapsOf(ami) }

\* an entry of response["Images"] for describe_images(ImageIds=[ami])
ImageEntries(ami) ==
    [Tags : TagLists, BlockDeviceMappings : SeqsUpTo(BlockDevices(ami), MaxMappings)]

----------------------------------------------------------------------------
(* Pure parts of the code *)

\* for x in entries: if "ImageId" in x: result.add(x["ImageId"])
RECURSIVE CollectImageIds(_)
CollectImageIds(entries) ==
    IF entries = <<>> THEN {}
    ELSE LET x == Head(entries)
         IN  (IF "ImageId" \in DOMAIN x THEN {x.ImageId} ELSE {})
             \cup CollectImageIds(Tail(entries))

\* get_instance_amis: the ids collected over all reservations
RECURSIVE InstanceAmis(_)
InstanceAmis(reservations) ==
    IF reservations = <<>> THEN {}
    ELSE CollectImageIds(Head(reservations)) \cup InstanceAmis(Tail(reservations))

\* set(a_list)
RECURSIVE SetOfList(_)
SetOfList(l) == IF l = <<>> THEN {} ELSE {Head(l)} \cup SetOfList(Tail(l))

\* a plausible slip: the in-use ids are not subtracted
find_unused_amis_no_subtraction(in_use, owned) == SetOfList(owned)

\* find_unused_amis: set(amis_owned) - set(amis_in_use); the caller receives
\* list(...) of this set
find_unused_amis(in_use, owned) == SetOfList(owned) \ SetOfList(in_use)

\* the "SnapshotId"s appended to `snapshots` for one image entry
RECURSIVE SnapshotsOfMappings(_)
SnapshotsOfMappings(bdm) ==
    IF bdm = <<>> THEN <<>>
    ELSE LET d == Head(bdm)
         IN  (IF "Ebs" \in DOMAIN d /\ "SnapshotId" \in DOMAIN d.Ebs
              THEN <<d.Ebs.SnapshotId>> ELSE <<>>)
             \o SnapshotsOfMappings(Tail(bdm))

\* a plausible slip: only the first tag of the list is examined
HasArchiveTag_first_only(tags) ==
    tags # <<>> /\ tags[1].Key = "archive" /\ tags[1].Value = "true"

\* tags.get("archive") == "true"
HasArchiveTag(tags) == TagsGet(tags, "archive") = "true"

----------------------------------------------------------------------------
(* Initial state: the process has started, nothing has run *)

NoCalls ==
    /\ instancesFailed = FALSE
    /\ imagesListed = FALSE
    /\ fetched = [a \in ImageIds |-> "none"]
    /\ deregCount = [a \in ImageIds |-> 0]
    /\ deregOK = {}
    /\ referenced = {}
    /\ archivedSnaps = {}
    /\ plainSnaps = {}
    /\ deleteCalls = {}
    /\ snapFailed = {}
    /\ snapLogged = {}
    /\ attempts = 0

NoLocals ==
    /\ idx = 1
    /\ entriesLeft = 0
    /\ skip_deletion = FALSE
    /\ snapshots = <<>>
    /\ sidx = 1

Init ==
    /\ pc = "parse_args"
    /\ owner_account_id = NoArg
    /\ no_op = FALSE
    /\ exit_code = 0
    /\ amis_in_use = <<>>
    /\ amis_owned = <<>>
    /\ unused_amis = <<>>
    /\ NoLocals
    /\ NoCalls

mainVars == <<owner_account_id, no_op, amis_in_use, amis_owned, unused_amis>>
loopVars == <<idx, entriesLeft, skip_deletion, snapshots, sidx>>
readRecord == <<instancesFailed, imagesListed>>
imageRecord == <<fetched, deregCount, deregOK, referenced>>
snapRecord == <<archivedSnaps, plainSnaps, deleteCalls, snapFailed, snapLogged, attempts>>

\* sys.exit(code)
Exit(code) == pc' = "exited" /\ exit_code' = code

----------------------------------------------------------------------------
(* main, lines 126-134: argument parsing *)

\* --owner_account_id is declared required=True: without it parse_args()
\* reports a usage error and exits with status 2 before main's try block.
ParseArgsMissingOwner ==
    /\ pc = "parse_args"
    /\ Exit(2)
    /\ UNCHANGED <<mainVars, loopVars, readRecord, imageRecord, snapRecord>>

ParseArgs ==
    /\ pc = "parse_args"
    /\ \E o \in OwnerArgs \ {NoArg}, n \in BOOLEAN :
          /\ owner_account_id' = o
          /\ no_op' = n
    /\ pc' = "get_instance_amis"
    /\ UNCHANGED <<exit_code, amis_in_use, amis_owned, unused_amis, loopVars,
                   readRecord, imageRecord, snapRecord>>

----------------------------------------------------------------------------
(* get_instance_amis, lines 8-26 *)

\* a plausible slip: the handler logs and the function returns what it has
AfterInstanceError_swallowed == [pc |-> "get_owned_amis", exit_code |-> 0]

\* line 24: sys.exit(1)
AfterInstanceError == [pc |-> "exited", exit_code |-> 1]

\* boto3.client raises (line 10, outside the try) or describe_instances or the
\* iteration raises (lines 22-24): either way the process exits with status 1;
\* the local set amis_in_use is dropped.
GetInstanceAmisFails ==
    /\ pc = "get_instance_amis"
    /\ instancesFailed' = TRUE
    /\ pc' = AfterInstanceError.pc
    /\ exit_code' = AfterInstanceError.exit_code
    /\ UNCHANGED <<mainVars, loopVars, imagesListed, imageRecord, snapRecord>>

GetInstanceAmis ==
    /\ pc = "get_instance_amis"
    /\ \E response \in InstanceResponses :
          amis_in_use' \in ListsOf(InstanceAmis(response))
    /\ pc' = "get_owned_amis"
    /\ UNCHANGED <<owner_account_id, no_op, exit_code, amis_owned, unused_amis,
                   loopVars, readRecord, imageRecord, snapRecord>>

----------------------------------------------------------------------------
(* get_owned_amis, lines 28-51 *)

\* `if not owner_account_id: raise ValueError` (lines 34-35, 44-46)
GetOwnedAmisInvalid ==
    /\ pc = "get_owned_amis"
    /\ owner_account_id \in {NoArg, ""}
    /\ Exit(1)
    /\ UNCHANGED <<mainVars, loopVars, readRecord, imageRecord, snapRecord>>

\* boto3.client raises (line 30, outside the try): main's handler exits with 1
GetOwnedAmisNoClient ==
    /\ pc = "get_owned_amis"
    /\ Exit(1)
    /\ UNCHANGED <<mainVars, loopVars, readRecord, imageRecord, snapRecord>>

\* describe_images(Owners=[...]) raises (lines 47-49)
GetOwnedAmisFails ==
    /\ pc = "get_owned_amis"
    /\ owner_account_id \notin {NoArg, ""}
    /\ imagesListed' = TRUE
    /\ Exit(1)
    /\ UNCHANGED <<mainVars, loopVars, instancesFailed, imageRecord, snapRecord>>

GetOwnedAmis ==
    /\ pc = "get_owned_amis"
    /\ owner_account_id \notin {NoArg, ""}
    /\ imagesListed' = TRUE
    /\ \E response \in OwnedResponses :
          amis_owned' \in ListsOf(CollectImageIds(response))
    /\ pc' = "find_unused_amis"
    /\ UNCHANGED <<owner_account_id, no_op, exit_code, amis_in_use, unused_amis,
                   loopVars, instancesFailed, imageRecord, snapRecord>>

----------------------------------------------------------------------------
(* find_unused_amis, lines 53-66, and the summary of main, lines 146-155 *)

FindUnusedAmis ==
    /\ pc = "find_unused_amis"
    /\ unused_amis' \in ListsOf(find_unused_amis(amis_in_use, amis_owned))
    /\ pc' = "cleanup"
    /\ UNCHANGED <<owner_account_id, no_op, exit_code, amis_in_use, amis_owned,
                   loopVars, readRecord, imageRecord, snapRecord>>

----------------------------------------------------------------------------
(* deregister_unused_amis_and_delete_snapshots, lines 68-124.                *)
(* The locals skip_deletion and snapshots are assigned anew at lines 79-80   *)
(* before they are read again; the model clears them when an iteration of    *)
(* the outer loop ends.                                                      *)

\* the image the outer loop is at
ami == unused_amis[idx]

\* the snapshot the inner loop is at
snapshot_id == snapshots[sidx]

\* boto3.client raises (line 73, outside the loop): main's handler exits with 1
CleanupNoClient ==
    /\ pc = "cleanup"
    /\ Exit(1)
    /\ UNCHANGED <<mainVars, loopVars, readRecord, imageRecord, snapRecord>>

CleanupStart ==
    /\ pc = "cleanup"
    /\ pc' = "for_ami"
    /\ idx' = 1
    /\ UNCHANGED <<mainVars, exit_code, entriesLeft, skip_deletion, snapshots, sidx,
                   readRecord, imageRecord, snapRecord>>

\* the outer loop is exhausted: the function and main return, exit status 0
CleanupDone ==
    /\ pc = "for_ami"
    /\ idx > Len(unused_amis)
    /\ Exit(0)
    /\ UNCHANGED <<mainVars, loopVars, readRecord, imageRecord, snapRecord>>

\* a plausible slip: the handler of line 123 sits outside the loop, so a failed
\* fetch ends the loop
AfterImageError_abort(i, n) == n + 1

\* loop position after `except Exception` of lines 123-124: the next candidate
AfterImageError(i, n) == i + 1

\* line 78 raises: lines 123-124 log the error, the loop goes on
DescribeImageFails ==
    /\ pc = "for_ami"
    /\ idx <= Len(unused_amis)
    /\ fetched' = [fetched EXCEPT ![ami] = "error"]
    /\ idx' = AfterImageError(idx, Len(unused_amis))
    /\ UNCHANGED <<mainVars, pc, exit_code, entriesLeft, skip_deletion, snapshots,
                   sidx, readRecord, deregCount, deregOK, referenced, snapRecord>>

\* a plausible slip: a response without entries is taken as "not found"
AfterDescribe_skip_empty(i, n) ==
    IF n = 0 THEN [pc |-> "for_ami", idx |-> i + 1] ELSE [pc |-> "for_image", idx |-> i]

\* lines 79-82: whatever the number n of entries, the loop over them is entered
AfterDescribe(i, n) == [pc |-> "for_image", idx |-> i]

\* lines 78-80: the call returns a response with n entries under "Images"
DescribeImage ==
    /\ pc = "for_ami"
    /\ idx <= Len(unused_amis)
    /\ \E n \in 0..MaxEntries :
          /\ entriesLeft' = n
          /\ fetched' = [fetched EXCEPT ![ami] = IF n = 0 THEN "empty" ELSE "plain"]
          /\ pc' = AfterDescribe(idx, n).pc
          /\ idx' = AfterDescribe(idx, n).idx
    /\ snapshots' = <<>>
    /\ skip_deletion' = FALSE
    /\ attempts' = 0
    /\ UNCHANGED <<mainVars, exit_code, sidx, readRecord, deregCount, deregOK,
                   referenced, archivedSnaps, plainSnaps, deleteCalls, snapFailed,
                   snapLogged>>

\* lines 82-92: one iteration over response["Images"]
ForImage ==
    /\ pc = "for_image"
    /\ entriesLeft > 0
    /\ \E image \in ImageEntries(ami) :
          /\ Len(snapshots \o SnapshotsOfMappings(image.BlockDeviceMappings)) <= MaxSnapshots
          /\ referenced' = referenced \cup Range(SnapshotsOfMappings(image.BlockDeviceMappings))
          /\ fetched' = IF CarriesArchiveTrue(image.Tags)
                        THEN [fetched EXCEPT ![ami] = "archived"] ELSE fetched
          /\ IF HasArchiveTag(image.Tags)
             THEN /\ skip_deletion' = TRUE
                  /\ entriesLeft' = 0                  \* break
                  /\ UNCHANGED snapshots
             ELSE /\ snapshots' = snapshots \o SnapshotsOfMappings(image.BlockDeviceMappings)
                  /\ entriesLeft' = entriesLeft - 1
                  /\ UNCHANGED skip_deletion
    /\ UNCHANGED <<mainVars, pc, exit_code, idx, sidx, readRecord, deregCount, deregOK,
                   snapRecord>>

\* lines 94-95: `if skip_deletion: continue`
SkipArchived ==
    /\ pc = "for_image"
    /\ entriesLeft = 0
    /\ skip_deletion
    /\ idx' = idx + 1
    /\ pc' = "for_ami"
    /\ skip_deletion' = FALSE
    /\ snapshots' = <<>>
    /\ UNCHANGED <<mainVars, exit_code, entriesLeft, sidx, readRecord, imageRecord,
                   snapRecord>>

\* a plausible slip: the flag is not consulted
NoOpBranch_ignored(flag) == FALSE

\* line 98: `if no_op`
NoOpBranch(flag) == flag

\* lines 98-102: report and continue
ReportNoOp ==
    /\ pc = "for_image"
    /\ entriesLeft = 0
    /\ ~skip_deletion
    /\ NoOpBranch(no_op)
    /\ idx' = idx + 1
    /\ pc' = "for_ami"
    /\ snapshots' = <<>>
    /\ UNCHANGED <<mainVars, exit_code, entriesLeft, skip_deletion, sidx, readRecord,
                   imageRecord, snapRecord>>

\* a plausible slip: the call sits in a try of its own whose handler only logs,
\* so the snapshot loop runs after a failed deregistration
AfterDeregisterError_continue(i) == [pc |-> "for_snapshot", idx |-> i]

\* line 106 raises: lines 123-124 log the error, the loop goes to the next candidate
AfterDeregisterError(i) == [pc |-> "for_ami", idx |-> i + 1]

\* lines 105-106, the call raises
DeregisterFails ==
    /\ pc = "for_image"
    /\ entriesLeft = 0
    /\ ~skip_deletion
    /\ ~NoOpBranch(no_op)
    /\ deregCount' = [deregCount EXCEPT ![ami] = @ + 1]
    /\ pc' = AfterDeregisterError(idx).pc
    /\ idx' = AfterDeregisterError(idx).idx
    /\ sidx' = 1
    /\ snapshots' = IF AfterDeregisterError(idx).pc = "for_ami" THEN <<>> ELSE snapshots
    /\ UNCHANGED <<mainVars, exit_code, entriesLeft, skip_deletion, readRecord, fetched,
                   deregOK, referenced, snapRecord>>

\* lines 105-106, the call returns
Deregister ==
    /\ pc = "for_image"
    /\ entriesLeft = 0
    /\ ~skip_deletion
    /\ ~NoOpBranch(no_op)
    /\ deregCount' = [deregCount EXCEPT ![ami] = @ + 1]
    /\ deregOK' = deregOK \cup {ami}
    /\ sidx' = 1
    /\ pc' = "for_snapshot"
    /\ UNCHANGED <<mainVars, exit_code, idx, entriesLeft, skip_deletion, snapshots,
                   readRecord, fetched, referenced, snapRecord>>

\* the inner loop is exhausted: next candidate
SnapshotsDone ==
    /\ pc = "for_snapshot"
    /\ sidx > Len(snapshots)
    /\ idx' = idx + 1
    /\ pc' = "for_ami"
    /\ snapshots' = <<>>
    /\ sidx' = 1
    /\ attempts' = 0
    /\ UNCHANGED <<mainVars, exit_code, entriesLeft, skip_deletion, readRecord,
                   imageRecord, archivedSnaps, plainSnaps, deleteCalls, snapFailed,
                   snapLogged>>

\* a plausible slip: no inner try, the error reaches the handler of line 123
AfterSnapshotError_outer(i, k) == [pc |-> "for_ami", idx |-> i + 1, sidx |-> k]

\* position after `except Exception` of lines 120-121: the next snapshot
AfterSnapshotError(i, k) == [pc |-> "for_snapshot", idx |-> i, sidx |-> k + 1]

\* line 112 raises, or response["Snapshots"] is empty and line 113 raises
DescribeSnapshotFails ==
    /\ pc = "for_snapshot"
    /\ sidx <= Len(snapshots)
    /\ attempts' = attempts + 1
    /\ snapFailed' = snapFailed \cup {snapshot_id}
    /\ snapLogged' = snapLogged \cup {snapshot_id}
    /\ pc' = AfterSnapshotError(idx, sidx).pc
    /\ idx' = AfterSnapshotError(idx, sidx).idx
    /\ sidx' = AfterSnapshotError(idx, sidx).sidx
    /\ UNCHANGED <<mainVars, exit_code, entriesLeft, skip_deletion, snapshots,
                   readRecord, imageRecord, archivedSnaps, plainSnaps, deleteCalls>>

\* the tags of a snapshot do not change during the run: a later fetch of the
\* same snapshot agrees with an earlier one
SnapshotTagLists(s) ==
    { t \in TagLists : /\ s \in archivedSnaps => CarriesArchiveTrue(t)
                       /\ s \in plainSnaps => ~CarriesArchiveTrue(t) }

\* a plausible slip: `break` instead of `continue` at line 116
AfterArchivedSnapshot_break(k, n) == n + 1

\* line 116: `continue`
AfterArchivedSnapshot(k, n) == k + 1

\* lines 112-116: the tags are fetched
DescribeSnapshot ==
    /\ pc = "for_snapshot"
    /\ sidx <= Len(snapshots)
    /\ attempts' = attempts + 1
    /\ \E tags \in SnapshotTagLists(snapshot_id) :
          /\ IF CarriesArchiveTrue(tags)
             THEN archivedSnaps' = archivedSnaps \cup {snapshot_id} /\ UNCHANGED plainSnaps
             ELSE plainSnaps' = plainSnaps \cup {snapshot_id} /\ UNCHANGED archivedSnaps
          /\ IF HasArchiveTag(tags)
             THEN /\ sidx' = AfterArchivedSnapshot(sidx, Len(snapshots))
                  /\ UNCHANGED pc
             ELSE /\ pc' = "delete_snapshot"
                  /\ UNCHANGED sidx
    /\ UNCHANGED <<mainVars, exit_code, idx, entriesLeft, skip_deletion, snapshots,
                   readRecord, imageRecord, deleteCalls, snapFailed, snapLogged>>

\* lines 118-119, the call raises: lines 120-121 log the error
DeleteSnapshotFails ==
    /\ pc = "delete_snapshot"
    /\ deleteCalls' = deleteCalls \cup {snapshot_id}
    /\ snapFailed' = snapFailed \cup {snapshot_id}
    /\ snapLogged' = snapLogged \cup {snapshot_id}
    /\ pc' = AfterSnapshotError(idx, sidx).pc
    /\ idx' = AfterSnapshotError(idx, sidx).idx
    /\ sidx' = AfterSnapshotError(idx, sidx).sidx
    /\ UNCHANGED <<mainVars, exit_code, entriesLeft, skip_deletion, snapshots,
                   readRecord, imageRecord, archivedSnaps, plainSnaps, attempts>>

\* lines 118-119, the call returns
DeleteSnapshot ==
    /\ pc = "delete_snapshot"
    /\ deleteCalls' = deleteCalls \cup {snapshot_id}
    /\ sidx' = sidx + 1
    /\ pc' = "for_snapshot"
    /\ UNCHANGED <<mainVars, exit_code, idx, entriesLeft, skip_deletion, snapshots,
                   readRecord, imageRecord, archivedSnaps, plainSnaps, snapFailed,
                   snapLogged, attempts>>

----------------------------------------------------------------------------
(* The program *)

Next ==
    \/ ParseArgsMissingOwner
    \/ ParseArgs
    \/ GetInstanceAmisFails
    \/ GetInstanceAmis
    \/ GetOwnedAmisNoClient
    \/ GetOwnedAmisInvalid
    \/ GetOwnedAmisFails
    \/ GetOwnedAmis
    \/ FindUnusedAmis
    \/ CleanupNoClient
    \/ CleanupStart
    \/ CleanupDone
    \/ DescribeImageFails
    \/ DescribeImage
    \/ ForImage
    \/ SkipArchived
    \/ ReportNoOp
    \/ DeregisterFails
    \/ Deregister
    \/ SnapshotsDone
    \/ DescribeSnapshotFails
    \/ DescribeSnapshot
    \/ DeleteSnapshotFails
    \/ DeleteSnapshot

Spec == Init /\ [][Next]_vars

----------------------------------------------------------------------------
(* find_unused_amis called on its own with arbitrary argument lists, which  *)
(* may repeat ids and may name ids the other list does not hold             *)

FindIds == ImageIds \cup {"ami-c"}

InitFind ==
    /\ pc = "find_unused_amis"
    /\ owner_account_id = "123456789012"
    /\ no_op = FALSE
    /\ exit_code = 0
    /\ amis_in_use \in SeqsUpTo(FindIds, MaxLen)
    /\ amis_owned \in SeqsUpTo(FindIds, MaxLen)
    /\ unused_amis = <<>>
    /\ NoLocals
    /\ NoCalls

NextFind == FindUnusedAmis

SpecFind == InitFind /\ [][NextFind]_vars

----------------------------------------------------------------------------
(* Properties *)

Occurs(x, l) == \E k \in DOMAIN l : l[k] = x

Candidates == Range(unused_amis)

Finished == pc = "exited"

\* a describe_snapshots call was issued for s
Attempted(s) == s \in archivedSnaps \cup plainSnaps \cup snapFailed

\* the snapshots the fetched detail of image a references
MappedSnaps(a) == {s \in referenced : SnapOwner(s) = a}

\* the outer loop has dealt with candidate a
Handled(a) ==
    \E k \in DOMAIN unused_amis : unused_amis[k] = a /\ (k < idx \/ Finished)

\* C1: once find_unused_amis has returned, an id is in the returned list
\* exactly when it is in the owned list and not in the in-use list, and no id
\* is returned twice, whatever ids the argument lists repeat.
C1_SetDifference ==
    pc # "find_unused_amis" =>
        /\ \A x \in FindIds :
              Occurs(x, unused_amis) <=> (Occurs(x, amis_owned) /\ ~Occurs(x, amis_in_use))
        /\ \A j, k \in DOMAIN unused_amis : unused_amis[j] = unused_amis[k] => j = k

C1_Witness ==
    /\ pc = "cleanup"
    /\ \E j, k \in DOMAIN amis_owned : j # k /\ amis_owned[j] = amis_owned[k]
    /\ \E j, k \in DOMAIN amis_in_use : j # k /\ amis_in_use[j] = amis_in_use[k]
    /\ \E x \in FindIds : Occurs(x, amis_owned) /\ Occurs(x, amis_in_use)
    /\ unused_amis # <<>>

C3_DryRunNoMutation ==
    no_op =>
        /\ \A a \in ImageIds : deregCount[a] = 0
        /\ deregOK = {}
        /\ deleteCalls = {}

C3_Witness ==
    /\ Finished /\ exit_code = 0 /\ no_op
    /\ \E a, b \in ImageIds :
          /\ fetched[a] = "plain" /\ MappedSnaps(a) # {}
          /\ fetched[b] = "error"

\* C4: a snapshot whose fetched tags carry archive=true gets no delete_snapshot
\* call; the loop goes on after it, so every position before the current one
\* has been fetched and every snapshot fetched without the tag gets its
\* delete_snapshot call.
C4_SnapshotOverride ==
    /\ archivedSnaps \cap deleteCalls = {}
    /\ pc = "for_snapshot" => attempts = sidx - 1
    /\ pc = "delete_snapshot" => attempts = sidx /\ snapshot_id \in plainSnaps
    /\ pc # "delete_snapshot" => plainSnaps \subseteq deleteCalls

C4_Witness ==
    /\ Finished /\ exit_code = 0
    /\ \E a \in deregOK :
          \E s, t \in MappedSnaps(a) :
              s \in archivedSnaps /\ t \in deleteCalls /\ t \notin snapFailed

\* C5: a candidate whose fetch failed gets no mutating call; the run still ends
\* with status 0 and every other candidate has been fetched and treated
\* according to its own detail: no call when it carries archive=true, exactly
\* one deregister_image call otherwise (none with --no-op), and after a
\* successful deregistration every mapped snapshot has been fetched.
C5_FetchFailureIsolated ==
    /\ \A a \in ImageIds :
          fetched[a] = "error" =>
              /\ deregCount[a] = 0
              /\ \A s \in SnapsOf(a) : s \notin deleteCalls /\ ~Attempted(s)
    /\ (Finished /\ \E a \in ImageIds : fetched[a] = "error") =>
          /\ exit_code = 0
          /\ \A b \in Candidates :
                /\ fetched[b] # "none"
                /\ fetched[b] = "archived" => deregCount[b] = 0
                /\ fetched[b] \in {"plain", "empty"} =>
                      deregCount[b] = (IF no_op THEN 0 ELSE 1)
                /\ b \in deregOK => \A s \in MappedSnaps(b) : Attempted(s)

C5_Witness ==
    /\ Finished /\ Len(unused_amis) = 2
    /\ fetched[unused_amis[1]] = "error"
    /\ unused_amis[2] \in deregOK
    /\ deleteCalls # {}

\* C6: a snapshot whose describe or delete call failed is logged; the run still
\* ends with status 0, every candidate has been fetched and every snapshot
\* mapped by a deregistered image has been fetched.
C6_SnapshotFailureIsolated ==
    /\ snapFailed \subseteq snapLogged
    /\ (Finished /\ snapFailed # {}) =>
          /\ exit_code = 0
          /\ \A b \in Candidates : fetched[b] # "none"
          /\ \A b \in deregOK : \A s \in MappedSnaps(b) : Attempted(s)

C6_Witness ==
    /\ Finished /\ Len(unused_amis) = 2
    /\ \E s \in snapFailed, t \in deleteCalls \ snapFailed :
          SnapOwner(s) = unused_amis[1] /\ SnapOwner(t) = unused_amis[1]
    /\ unused_amis[2] \in deregOK

\* C7 (as claimed): when the owner account id is not given or is empty, the
\* program exits with status 1 and describe_images(Owners=...) is never issued.
C7_MissingOwnerExitsOne ==
    (Finished /\ owner_account_id \in {NoArg, ""}) =>
        (exit_code = 1 /\ ~imagesListed)

\* C8: when describe_instances fails the process has exited with status 1 and
\* no later call was issued; the ids collected so far are not passed on.
C8_InstanceFailureAborts ==
    instancesFailed =>
        /\ Finished /\ exit_code = 1
        /\ ~imagesListed
        /\ \A a \in ImageIds : fetched[a] = "none" /\ deregCount[a] = 0
        /\ deleteCalls = {} /\ ~(\E s \in SnapshotIds : Attempted(s))
        /\ amis_in_use = <<>> /\ amis_owned = <<>> /\ unused_amis = <<>>

C8_Witness == instancesFailed /\ Finished /\ owner_account_id = "123456789012" /\ ~no_op

C10_DeregisterOncePerCandidate ==
    \A a \in ImageIds :
        /\ deregCount[a] <= 1
        /\ deregCount[a] = 1 =>
              /\ ~no_op
              /\ a \in Candidates
              /\ Occurs(a, amis_owned) /\ ~Occurs(a, amis_in_use)
        /\ (~no_op /\ fetched[a] = "empty" /\ Handled(a)) =>
              /\ deregCount[a] = 1
              /\ \A s \in SnapsOf(a) : s \notin deleteCalls /\ ~Attempted(s)

C10_Witness ==
    /\ Finished /\ ~no_op
    /\ \E a \in ImageIds : fetched[a] = "empty" /\ a \in deregOK

====
